---- MODULE Spec2Model ----
(***************************************************************************)
(* A model of the request / authentication / retry state machine of the    *)
(* latest revision of tdxproxy (src/tdxproxy/tdxproxy.go, lines 207-487):  *)
(* proxy.Get, requestWithRetry, handleResponse, buildAuthHeaders and       *)
(* updateAuth.  A step of the model runs the code of one caller from one   *)
(* blocking point (a network call or the 1-second sleep) to the next one,  *)
(* or to the return of Get.  The retry that follows a successful refresh   *)
(* is a step of its own, because updateAuth and buildAuthHeaders read the  *)
(* clock separately.                                                       *)
(*                                                                         *)
(* Not modelled: the per-call timeout (a timeout is a transport failure),  *)
(* logging, and a failure of http.NewRequest (host, base path and endpoint *)
(* are well-formed URLs here).                                             *)
(***************************************************************************)
EXTENDS Integers, Sequences, FiniteSets, TLC

VARIABLES
    appID,        \* proxy.appID
    appKey,       \* proxy.appKey
    authToken,    \* proxy.authToken
    expiredTime,  \* proxy.expiredTime (Unix seconds)
    host,         \* proxy.host
    baseUrl,      \* proxy.baseUrl
    now,          \* time.Now().Unix()
    calls,        \* per caller: the activation of Get and what it has done
    nCalls        \* number of Get calls started on this proxy

vars == <<appID, appKey, authToken, expiredTime, host, baseUrl, now, calls, nCalls>>

proxyVars == <<appID, appKey, host, baseUrl>>

(***************************************************************************)
(* Bounds of the model.                                                    *)
(***************************************************************************)
MaxTime == 2

MaxCalls == 2

(***************************************************************************)
(* Program constants.                                                      *)
(***************************************************************************)
RetryLimit == 2

\* "The maximum number of retries is 3." (doc comment of Get)
DocMaxRetries == 3

SafetyMargin == 60

SleepSeconds == 1

StatusOK == 200

StatusNotModified == 304

StatusUnauthorized == 401

StatusTooManyRequests == 429

TDX_HOST == "https://tdx.transportdata.tw"

URL_BASIC == "/api/basic/"

URL_AUTH == "/auth/realms/TDXConnect/protocol/openid-connect/token"

UserAgent == "Mozilla/5.0"

(***************************************************************************)
(* The environment: callers, servers' answers, callers' arguments.         *)
(***************************************************************************)
Callers == {"c1", "c2"}

\* The callers of the sequential specification: one Get at a time.
SeqCallers == {"c1"}

\* The arguments callers pass to SetHost and to SetBaseURL.
HostChoices == { "", "https://tdx.example.test" }

BaseUrlChoices == { "", "/api/premium" }

Endpoints == {"some_endpoint"}

\* Status codes a data endpoint may answer with; 0 stands for a transport
\* failure of client.Do (no response at all).
TransportFailure == 0

DataStatuses == {200, 304, 401, 429, 500}

DataOutcomes == DataStatuses \cup {TransportFailure}

\* access_token values of a token response, the empty string included.
Tokens == {"", "tokA", "tokB"}

\* expires_in values of a token response: below, at and above the margin.
ExpiresInValues == {59, 61, 3600}

\* Ways a token request can end (updateAuth, lines 455-482).
TokenFailures == {"transport", "status", "read", "json", "no_access_token", "no_expires_in"}

\* expires_in is a JSON number: expiresIn is its integer part and tenths its
\* fractional part in tenths of a second.  One response carries 59.5.
HalfSecond == 5

TokenOutcomes ==
    [kind : TokenFailures, token : {""}, expiresIn : {0}, tenths : {0}]
        \cup [kind : {"ok"}, token : Tokens, expiresIn : ExpiresInValues, tenths : {0}]
        \cup [kind : {"ok"}, token : Tokens, expiresIn : {59}, tenths : {HalfSecond}]

\* No token request of the call is in flight / has ended.
NotSent == -1

NoTokenURL == [host |-> "", path |-> ""]

NoTokenResp == [kind |-> "none", token |-> "", expiresIn |-> 0, tenths |-> 0]

(***************************************************************************)
(* Maps (Go map[string]string) are functions on a finite set of keys.  A   *)
(* nil map is kept apart from an empty one.  Header values are pairs       *)
(* <<prefix, text>> standing for the concatenation prefix + text.          *)
(***************************************************************************)
EmptyMap == [k \in {} |-> <<"", "">>]

MapSet(m, k, v) == [x \in (DOMAIN m) \cup {k} |-> IF x = k THEN v ELSE m[x]]

\* Mutant: a key already present keeps its value.
MapMergeKeep(a, b) == [x \in (DOMAIN a) \cup (DOMAIN b) |-> IF x \in DOMAIN a THEN a[x] ELSE b[x]]

\* for k, v := range b { a[k] = v }
MapMerge(a, b) == [x \in (DOMAIN a) \cup (DOMAIN b) |-> IF x \in DOMAIN b THEN b[x] ELSE a[x]]

Lit(s) == <<"", s>>

Bearer(tok) == <<"Bearer ", tok>>

NilMap == [nil |-> TRUE, m |-> EmptyMap]

SomeMap(m) == [nil |-> FALSE, m |-> m]

ParamsXML == SomeMap(MapSet(EmptyMap, "$format", Lit("XML")))

HeadersAuthorization == SomeMap(MapSet(EmptyMap, "Authorization", Lit("caller-auth")))

HeadersUserAgent == SomeMap(MapSet(EmptyMap, "User-Agent", Lit("caller-agent")))

ParamChoices == { NilMap, SomeMap(EmptyMap), ParamsXML }

HeaderChoices == { NilMap, HeadersAuthorization, HeadersUserAgent }

\* The (params, headers) arguments callers pass to Get: each choice of
\* params and each choice of headers, in three calls.
ArgChoices ==
    { a \in ParamChoices \X HeaderChoices :
          a \in { <<NilMap, NilMap>>,
                  <<SomeMap(EmptyMap), HeadersAuthorization>>,
                  <<ParamsXML, HeadersUserAgent>> } }

(***************************************************************************)
(* Values returned by Get.                                                 *)
(***************************************************************************)
NilResp == [status |-> 0, attempt |-> -1]

Resp(status, attempt) == [status |-> status, attempt |-> attempt]

NoErr == [kind |-> "nil", cause |-> "none", status |-> 0]

Err(kind, cause, status) == [kind |-> kind, cause |-> cause, status |-> status]

NoReq == [host |-> "", base |-> "", endpoint |-> "", query |-> EmptyMap, headers |-> EmptyMap]

\* An event of the log of one Get call: a token request that ended
\* (why: "lazy" from buildAuthHeaders, "refresh" from handleResponse), a data
\* request that ended (status: the HTTP status), or a sleep that ended.
Ev(ev, why, kind, status) == [ev |-> ev, why |-> why, kind |-> kind, status |-> status]

\* The largest expires_in of the model.
LongestExpiresIn == CHOOSE e \in ExpiresInValues : \A f \in ExpiresInValues : f <= e

\* The activation of Get of one caller.  pc is where its code stands;
\* op is the method the caller called last with its string argument;
\* argParams is the params argument as the caller passed it; tokenSentAt is
\* the clock at which the token request in flight was sent, tokenURL the URL
\* of the last token request the caller sent (kept from call to call) and
\* tokenResp the last token response the call received; log and
\* minExpiresIn (the smallest expires_in a token response of this call
\* carried) record what the call has seen.
IdleCall ==
    [ pc |-> "idle", op |-> <<"none", "">>, url |-> "", argParams |-> NilMap,
      params |-> EmptyMap, headers |-> EmptyMap,
      retryCount |-> 0, why |-> "none", fullURL |-> NoReq, req |-> NoReq,
      tokenSentAt |-> NotSent, tokenURL |-> NoTokenURL, tokenResp |-> NoTokenResp,
      log |-> << >>, minExpiresIn |-> LongestExpiresIn,
      resp |-> NilResp, err |-> NoErr, open |-> {} ]

(***************************************************************************)
(* Decisions of the code, one operator per condition or expression.        *)
(***************************************************************************)
\* Mutant: the bound of the doc comment instead of the code's.
MaxRetryReachedDoc(retryCount) == retryCount > DocMaxRetries

\* requestWithRetry: if retryCount > 2
MaxRetryReached(retryCount) == retryCount > RetryLimit

\* Mutant: anonymous only when both credentials are empty.
IsAnonymousBothEmpty(id, key) == id = "" /\ key = ""

\* buildAuthHeaders: if proxy.appID == "" || proxy.appKey == ""
IsAnonymous(id, key) == id = "" \/ key = ""

\* Mutant: a token is fetched for every attempt.
TokenInvalidAlways(tok, exp, t) == TRUE

\* Mutant: the token is taken as expired from the instant expiredTime on.
TokenInvalidFromExpiry(tok, exp, t) == tok = "" \/ t >= exp

\* buildAuthHeaders: if proxy.authToken == "" || time.Now().Unix() > proxy.expiredTime
TokenInvalid(tok, exp, t) == tok = "" \/ t > exp

\* updateAuth: time.Now().Unix() + int64(expiresIn) - 60
NewExpiredTime(t, expiresIn) == t + expiresIn - SafetyMargin

\* The expires_in of token response o as the float64 it is parsed to, in
\* tenths of a second.
ExpiresInTenths(o) == 10 * o.expiresIn + o.tenths

\* Mutant: the float64 is rounded to the nearest second.
Int64Rounded(tenths) == (tenths + HalfSecond) \div 10

\* int64(expiresIn): the fraction is dropped.
Int64(tenths) == tenths \div 10

\* Mutant: the token request goes to the host the proxy was constructed with.
TokenURLOfFirstHost(h) == [host |-> TDX_HOST, path |-> URL_AUTH]

\* updateAuth: http.NewRequest("POST", proxy.host+URL_AUTH, ...)
TokenURL(h) == [host |-> h, path |-> URL_AUTH]

\* Mutant: access_token is stored before expires_in is examined.
TokenStateTokenFirst(tok, exp, o, t) ==
    IF o.kind = "ok" THEN <<o.token, NewExpiredTime(t, Int64(ExpiresInTenths(o)))>>
    ELSE IF o.kind = "no_expires_in" THEN <<o.token, exp>>
    ELSE <<tok, exp>>

\* updateAuth: (authToken, expiredTime) after the token request ended with
\* outcome o at clock t, having been (tok, exp) before.
TokenStateAfter(tok, exp, o, t) ==
    IF o.kind = "ok" THEN <<o.token, NewExpiredTime(t, Int64(ExpiresInTenths(o)))>>
    ELSE <<tok, exp>>

\* Mutant: 429 is handled as 401 is.
StatusCaseNoRateLimit(status) ==
    CASE status \in {StatusOK, StatusNotModified} -> "success"
      [] status \in {StatusUnauthorized, StatusTooManyRequests} -> "unauthorized"
      [] OTHER -> "default"

\* Mutant: a 5xx status is retried after the sleep, as a 429 is.
StatusCaseRetries5xx(status) ==
    CASE status \in {StatusOK, StatusNotModified} -> "success"
      [] status = StatusUnauthorized -> "unauthorized"
      [] status = StatusTooManyRequests \/ status >= 500 -> "rate_limited"
      [] OTHER -> "default"

\* handleResponse: switch resp.StatusCode
StatusCase(status) ==
    CASE status \in {StatusOK, StatusNotModified} -> "success"
      [] status = StatusUnauthorized -> "unauthorized"
      [] status = StatusTooManyRequests -> "rate_limited"
      [] OTHER -> "default"

\* Mutant: $format is set to JSON whatever the caller passed.
GetParamsForceJSON(p) == MapSet(IF p.nil THEN EmptyMap ELSE p.m, "$format", Lit("JSON"))

\* Get: params defaulting, $format injected if absent (into the caller's own
\* map when it is not nil)
GetParams(p) ==
    IF p.nil THEN MapSet(EmptyMap, "$format", Lit("JSON"))
    ELSE IF "$format" \notin DOMAIN p.m THEN MapSet(p.m, "$format", Lit("JSON"))
    ELSE p.m

\* Get: if headers == nil { headers = map[string]string{} }
GetHeaders(h) == IF h.nil THEN EmptyMap ELSE h.m

\* buildFullURL: host + baseUrl + queryUrl + "?" + the parameters, in any order
buildFullURL(h, b, queryUrl, params) ==
    [host |-> h, base |-> b, endpoint |-> queryUrl, query |-> params, headers |-> EmptyMap]

\* Mutant: the setter stores whatever it is given.
SetIfNotEmptyUnguarded(current, url) == url

\* SetHost / SetBaseURL: if url == "" { warn; return }, else the field = url
SetIfNotEmpty(current, url) == IF url = "" THEN current ELSE url

\* buildAuthHeaders, anonymous branch
AnonymousHeaders == MapSet(EmptyMap, "User-Agent", Lit(UserAgent))

\* buildAuthHeaders, authenticated branch
BearerHeaders(tok) == MapSet(EmptyMap, "Authorization", Bearer(tok))

\* requestWithRetry: if err != nil { return nil, err }; return resp, nil
Unwind(resp, err) == IF err # NoErr THEN <<NilResp, err>> ELSE <<resp, NoErr>>

\* The return of Get with (resp, err), through every requestWithRetry frame.
Return(cr, resp, err) ==
    [cr EXCEPT !.pc = "done", !.resp = Unwind(resp, err)[1], !.err = Unwind(resp, err)[2]]

\* Mutant: the headers of the first attempt are kept for the retries.
SendDataReusingHeaders(cr, reqHeaders) ==
    [cr EXCEPT !.pc = "dataWait",
               !.req = [cr.fullURL EXCEPT !.headers =
                           IF cr.req # NoReq THEN cr.req.headers
                           ELSE MapMerge(reqHeaders, cr.headers)]]

\* requestWithRetry, lines 358-371: the caller's headers over the built ones,
\* then client.Do(req) of the data request.
SendData(cr, reqHeaders) ==
    [cr EXCEPT !.pc = "dataWait",
               !.req = [cr.fullURL EXCEPT !.headers = MapMerge(reqHeaders, cr.headers)]]

\* requestWithRetry: return nil, fmt.Errorf("max retry attempts reached for %s", url)
RetryExhausted(cr) == Return(cr, NilResp, Err("max_retry", cr.url, 0))

\* requestWithRetry from its entry with retryCount = rc to its first blocking
\* point, the token state being (tok, exp) and the clock t.
RequestWithRetry(cr, rc, tok, exp, t) ==
    IF MaxRetryReached(rc)
    THEN RetryExhausted([cr EXCEPT !.retryCount = rc])
    ELSE LET at == [cr EXCEPT !.retryCount = rc,
                              !.fullURL = buildFullURL(host, baseUrl, cr.url, cr.params)]
         IN  IF IsAnonymous(appID, appKey) THEN SendData(at, AnonymousHeaders)
             ELSE IF TokenInvalid(tok, exp, t)
                  THEN [at EXCEPT !.pc = "tokenWait", !.why = "lazy", !.tokenSentAt = t,
                                  !.tokenURL = TokenURL(host)]
                  ELSE SendData(at, BearerHeaders(tok))

\* Mutant: a failed data request is retried after the sleep, as a 429 is.
DataTransportRetried(cr) == [cr EXCEPT !.pc = "sleep"]

\* requestWithRetry: client.Do(req) of the data request returned an error
DataTransportFailed(cr) == Return(cr, NilResp, Err("request_failed", "transport", 0))

\* Mutant: the error of updateAuth is logged and dropped and the request is
\* sent with the token at hand, as the first revision's getAuthHeader did.
LazyFetchErrorDropped(cr, cause) == SendData(cr, BearerHeaders(authToken))

\* buildAuthHeaders / requestWithRetry: updateAuth returned an error
LazyFetchFailed(cr, cause) == Return(cr, NilResp, Err("build_auth_headers", cause, 0))

\* Mutant: a failed refresh does not end the chain; the request is retried.
RefreshFailureRetried(cr, cause) == [cr EXCEPT !.pc = "retry"]

\* handleResponse, case 401: updateAuth returned an error
RefreshFailed(cr, cause) == Return(cr, NilResp, Err("refresh_auth_token", cause, 0))

\* Mutant: the last allowed attempt hands its response back whatever its
\* status, as the first revision's getAPI did.
HandleResponseReturnsLast(cr, s) ==
    LET closed == [cr EXCEPT !.open = @ \ {cr.retryCount}]
    IN  CASE StatusCase(s) = "success" \/ cr.retryCount >= RetryLimit ->
                 Return(cr, Resp(s, cr.retryCount), NoErr)
          [] StatusCase(s) = "unauthorized" -> [closed EXCEPT !.pc = "tokenWait", !.why = "refresh",
                                                              !.tokenSentAt = now,
                                                              !.tokenURL = TokenURL(host)]
          [] StatusCase(s) = "rate_limited" -> [closed EXCEPT !.pc = "sleep"]
          [] OTHER -> Return(closed, NilResp, Err("unexpected_status", "none", s))

\* Mutant: the body of a 401 response is left open.
HandleResponseLeaks401(cr, s) ==
    LET closed == [cr EXCEPT !.open = @ \ {cr.retryCount}]
    IN  CASE StatusCase(s) = "success" -> Return(cr, Resp(s, cr.retryCount), NoErr)
          [] StatusCase(s) = "unauthorized" -> [cr EXCEPT !.pc = "tokenWait", !.why = "refresh",
                                                          !.tokenSentAt = now,
                                                              !.tokenURL = TokenURL(host)]
          [] StatusCase(s) = "rate_limited" -> [closed EXCEPT !.pc = "sleep"]
          [] OTHER -> Return(closed, NilResp, Err("unexpected_status", "none", s))

\* Mutant: the retry bound is examined before the refresh or the sleep.
HandleResponseBoundFirst(cr, s) ==
    LET closed == [cr EXCEPT !.open = @ \ {cr.retryCount}]
    IN  CASE StatusCase(s) = "success" -> Return(cr, Resp(s, cr.retryCount), NoErr)
          [] StatusCase(s) \in {"unauthorized", "rate_limited"}
                 /\ MaxRetryReached(cr.retryCount + 1) -> RetryExhausted(closed)
          [] StatusCase(s) = "unauthorized" -> [closed EXCEPT !.pc = "tokenWait", !.why = "refresh",
                                                              !.tokenSentAt = now,
                                                              !.tokenURL = TokenURL(host)]
          [] StatusCase(s) = "rate_limited" -> [closed EXCEPT !.pc = "sleep"]
          [] OTHER -> Return(closed, NilResp, Err("unexpected_status", "none", s))

\* handleResponse on a response with status s received by attempt cr.retryCount
HandleResponse(cr, s) ==
    LET closed == [cr EXCEPT !.open = @ \ {cr.retryCount}]
    IN  CASE StatusCase(s) = "success" -> Return(cr, Resp(s, cr.retryCount), NoErr)
          [] StatusCase(s) = "unauthorized" -> [closed EXCEPT !.pc = "tokenWait", !.why = "refresh",
                                                              !.tokenSentAt = now,
                                                              !.tokenURL = TokenURL(host)]
          [] StatusCase(s) = "rate_limited" -> [closed EXCEPT !.pc = "sleep"]
          [] OTHER -> Return(closed, NilResp, Err("unexpected_status", "none", s))

(***************************************************************************)
(* Construction.  The clock counts seconds from the construction instant.  *)
(***************************************************************************)
CredChoices == { <<"appID", "appKey">>, <<"", "">>, <<"appID", "">> }

Init ==
    /\ \E cred \in CredChoices : appID = cred[1] /\ appKey = cred[2]
    /\ authToken = ""
    /\ now = 0
    /\ expiredTime = 0
    /\ host = TDX_HOST
    /\ baseUrl = URL_BASIC
    /\ calls = [c \in Callers |-> IdleCall]
    /\ nCalls = 0

(***************************************************************************)
(* Steps.                                                                  *)
(***************************************************************************)
\* proxy.Get(url, p, h, timeout), up to the first network call.
Get(c, url, p, h) ==
    /\ calls[c].pc \in {"idle", "done"}
    /\ nCalls < MaxCalls
    /\ nCalls' = nCalls + 1
    /\ calls' = [calls EXCEPT ![c] =
          RequestWithRetry([IdleCall EXCEPT !.op = <<"Get", url>>, !.url = url, !.argParams = p,
                                            !.tokenURL = calls[c].tokenURL,
                                            !.params = GetParams(p),
                                            !.headers = GetHeaders(h)],
                           0, authToken, expiredTime, now)]
    /\ UNCHANGED <<proxyVars, authToken, expiredTime, now>>

\* The token request of updateAuth ends with outcome o.  On failure Get
\* returns.  On success Token State is written; a lazy fetch goes on to send
\* the data request, a refresh goes on to call requestWithRetry.
TokenResponse(c, o) ==
    /\ calls[c].pc = "tokenWait"
    /\ LET cr == calls[c]
           logged == [cr EXCEPT !.log = Append(@, Ev("token", cr.why, o.kind, 0)),
                               !.tokenSentAt = NotSent, !.tokenResp = o,
                               !.minExpiresIn = IF o.kind = "ok" /\ o.expiresIn < @
                                                THEN o.expiresIn ELSE @]
       IN  IF o.kind # "ok"
           THEN /\ calls' = [calls EXCEPT ![c] =
                       IF cr.why = "lazy" THEN LazyFetchFailed(logged, o.kind)
                                          ELSE RefreshFailed(logged, o.kind)]
           ELSE /\ calls' = [calls EXCEPT ![c] =
                       IF cr.why = "lazy"
                       THEN SendData(logged, BearerHeaders(o.token))
                       ELSE [logged EXCEPT !.pc = "retry"]]
    /\ authToken' = TokenStateAfter(authToken, expiredTime, o, now)[1]
    /\ expiredTime' = TokenStateAfter(authToken, expiredTime, o, now)[2]
    /\ UNCHANGED <<proxyVars, now, nCalls>>

\* proxy.SetHost(url), called between two Get calls of the caller.
SetHost(c, url) ==
    /\ calls[c].pc \in {"idle", "done"}
    /\ host' = SetIfNotEmpty(host, url)
    /\ calls' = [calls EXCEPT ![c].op = <<"SetHost", url>>]
    /\ UNCHANGED <<appID, appKey, baseUrl, authToken, expiredTime, now, nCalls>>

\* proxy.SetBaseURL(url), called between two Get calls of the caller.
SetBaseURL(c, url) ==
    /\ calls[c].pc \in {"idle", "done"}
    /\ baseUrl' = SetIfNotEmpty(baseUrl, url)
    /\ calls' = [calls EXCEPT ![c].op = <<"SetBaseURL", url>>]
    /\ UNCHANGED <<appID, appKey, host, authToken, expiredTime, now, nCalls>>

\* handleResponse, case 401, after updateAuth returned nil:
\* proxy.requestWithRetry(url, params, headers, timeout, retryCount+1)
RetryAfterRefresh(c) ==
    /\ calls[c].pc = "retry"
    /\ calls' = [calls EXCEPT ![c] =
          RequestWithRetry(calls[c], calls[c].retryCount + 1, authToken, expiredTime, now)]
    /\ UNCHANGED <<proxyVars, authToken, expiredTime, now, nCalls>>

\* The data request ends: a transport failure, or a response with status s.
DataResponse(c, s) ==
    /\ calls[c].pc = "dataWait"
    /\ LET cr == calls[c]
       IN  calls' = [calls EXCEPT ![c] =
             IF s = TransportFailure
             THEN DataTransportFailed(
                      [cr EXCEPT !.log = Append(@, Ev("data", "attempt", "transport", 0))])
             ELSE HandleResponse(
                      [cr EXCEPT !.log = Append(@, Ev("data", "attempt", "response", s)),
                                 !.open = @ \cup {cr.retryCount}], s)]
    /\ UNCHANGED <<proxyVars, authToken, expiredTime, now, nCalls>>

\* time.Sleep(1 * time.Second) ends, then requestWithRetry(retryCount+1).
Wake(c) ==
    /\ calls[c].pc = "sleep"
    /\ now' = now + SleepSeconds
    /\ LET cr == calls[c]
       IN  calls' = [calls EXCEPT ![c] =
             RequestWithRetry([cr EXCEPT !.log = Append(@, Ev("sleep", "backoff", "1s", 0))],
                              cr.retryCount + 1, authToken, expiredTime, now + SleepSeconds)]
    /\ UNCHANGED <<proxyVars, authToken, expiredTime, nCalls>>

\* A second passes.
Tick ==
    /\ now < MaxTime
    /\ now' = now + 1
    /\ UNCHANGED <<proxyVars, authToken, expiredTime, calls, nCalls>>

Next ==
    \/ \E c \in SeqCallers, url \in Endpoints, a \in ArgChoices : Get(c, url, a[1], a[2])
    \/ \E c \in SeqCallers, o \in TokenOutcomes : TokenResponse(c, o)
    \/ \E c \in SeqCallers : RetryAfterRefresh(c)
    \/ \E c \in SeqCallers, s \in DataOutcomes : DataResponse(c, s)
    \/ \E c \in SeqCallers : Wake(c)
    \/ Tick

Spec == Init /\ [][Next]_vars

(***************************************************************************)
(* Reading the log of a call.                                              *)
(***************************************************************************)
IsData(e) == e.ev = "data"

IsToken(e) == e.ev = "token"

IsSleep(e) == e.ev = "sleep"

NumData(log) == Len(SelectSeq(log, IsData))

NumToken(log) == Len(SelectSeq(log, IsToken))

NumSleep(log) == Len(SelectSeq(log, IsSleep))

DataResp(s) == Ev("data", "attempt", "response", s)

\* The statuses of the data responses of a log, in order (0: transport failure).
DataStatusSeq(log) == [i \in 1..NumData(log) |-> SelectSeq(log, IsData)[i].status]

AllTokensOk(log) == \A i \in 1..Len(log) : IsToken(log[i]) => log[i].kind = "ok"

Authenticated == appID # "" /\ appKey # ""

(***************************************************************************)
(* The outcome of Get.                                                     *)
(***************************************************************************)
\* C1: when Get has returned, it has returned either a response with status
\* 200 or 304 and a nil error, that response being the one of the last data
\* attempt made, or a nil response and a non-nil error; nothing else.
C1_ResponseXorError ==
    \A c \in Callers : calls[c].pc = "done" =>
        LET cr == calls[c]
        IN  \/ /\ cr.resp # NilResp
               /\ cr.err = NoErr
               /\ cr.resp.status \in {200, 304}
               /\ Len(cr.log) > 0
               /\ cr.log[Len(cr.log)] = DataResp(cr.resp.status)
               /\ cr.resp.attempt = NumData(cr.log) - 1
            \/ /\ cr.resp = NilResp
               /\ cr.err # NoErr

\* A Get that returned a 304 response from its third attempt.
C1_Witness ==
    \E c \in Callers :
        /\ calls[c].pc = "done"
        /\ calls[c].resp = Resp(304, 2)
        /\ DataStatusSeq(calls[c].log) = <<401, 429, 304>>

(***************************************************************************)
(* The bound on attempts.                                                  *)
(***************************************************************************)
AllDataRetryable(log) ==
    \A i \in 1..Len(log) :
        IsData(log[i]) => log[i].kind = "response" /\ log[i].status \in {401, 429}

\* C2: a Get never has more than 3 data requests sent; and when it has
\* returned with every data response 429 or 401 and every token request
\* successful, it made exactly 3 data requests and returned a nil response with
\* the error "max retry attempts reached for <endpoint>".
C2_ThreeAttemptsThenExhausted ==
    \A c \in Callers :
        LET cr == calls[c]
        IN  /\ NumData(cr.log) + (IF cr.pc = "dataWait" THEN 1 ELSE 0) <= 3
            /\ (cr.pc = "done" /\ AllDataRetryable(cr.log) /\ AllTokensOk(cr.log)) =>
                   /\ NumData(cr.log) = 3
                   /\ cr.resp = NilResp
                   /\ cr.err = Err("max_retry", cr.url, 0)

\* A Get that gave up after a 401 and two 429.
C2_Witness ==
    \E c \in Callers :
        /\ calls[c].pc = "done"
        /\ calls[c].err.kind = "max_retry"
        /\ DataStatusSeq(calls[c].log) = <<401, 429, 429>>
        /\ AllTokensOk(calls[c].log)

\* C3: the doc comment of Get gives 3 as the maximum number of retries: a Get
\* gives up with the retry-exhausted error only after 1 + 3 data requests.
C3_GivesUpAfterDocMaxRetries ==
    \A c \in Callers :
        (calls[c].pc = "done" /\ calls[c].err.kind = "max_retry") =>
            NumData(calls[c].log) = 1 + DocMaxRetries

(***************************************************************************)
(* 401: refresh and retry.                                                 *)
(***************************************************************************)
\* The first Get of an authenticated proxy has returned; its data responses
\* were 401 then 200 and its token requests all succeeded.
C4_Scenario(c) ==
    /\ Authenticated
    /\ nCalls = 1
    /\ calls[c].pc = "done"
    /\ AllTokensOk(calls[c].log)
    /\ DataStatusSeq(calls[c].log) = <<401, 200>>

\* C4 as claimed: with every expires_in greater than 60, the scenario ends in
\* success with the 200 response after exactly 2 token requests and 2 data
\* requests.
C4_TwoTokenRequests ==
    \A c \in Callers :
        (C4_Scenario(c) /\ calls[c].minExpiresIn > 60) =>
            /\ calls[c].resp = Resp(200, 1)
            /\ calls[c].err = NoErr
            /\ NumToken(calls[c].log) = 2
            /\ NumData(calls[c].log) = 2

\* The scenario ends in success with the 200 response after exactly 2 data
\* requests; the token requests are the lazy fetch, the refresh after the 401
\* and at most one more lazy fetch, made before the second data request.
C4_ScenarioOutcome ==
    \A c \in Callers :
        C4_Scenario(c) =>
            LET log == calls[c].log
            IN  /\ calls[c].resp = Resp(200, 1)
                /\ calls[c].err = NoErr
                /\ NumData(log) = 2
                /\ \/ log = << Ev("token", "lazy", "ok", 0), DataResp(401),
                               Ev("token", "refresh", "ok", 0), DataResp(200) >>
                   \/ log = << Ev("token", "lazy", "ok", 0), DataResp(401),
                               Ev("token", "refresh", "ok", 0),
                               Ev("token", "lazy", "ok", 0), DataResp(200) >>

\* The retry that follows a successful refresh makes no token request when
\* Token State is valid (token non-empty, now <= expiredTime) as it starts.
C4_RetryUsesValidToken ==
    \A c \in Callers :
        ( /\ calls[c].pc = "retry"
          /\ calls'[c].pc # "retry"
          /\ Authenticated
          /\ authToken # ""
          /\ now <= expiredTime ) =>
            /\ calls'[c].pc \in {"dataWait", "done"}
            /\ calls'[c].log = calls[c].log

\* C4 (amended): the scenario ends in success with the 200 response and 2 data
\* requests; the token requests are exactly 2 when the refreshed token is
\* valid as the retry starts, and 3 otherwise.
C4_RefreshThenRetry == []C4_ScenarioOutcome /\ [][C4_RetryUsesValidToken]_vars

\* The scenario with exactly two token requests.
C4_Witness ==
    \E c \in Callers :
        /\ C4_Scenario(c)
        /\ calls[c].minExpiresIn = 61
        /\ NumToken(calls[c].log) = 2
        /\ calls[c].resp = Resp(200, 1)

(***************************************************************************)
(* 429: sleep and retry.                                                   *)
(***************************************************************************)
\* A Get has returned after the data responses 429, 429, 200.
C5_Scenario(c) ==
    /\ calls[c].pc = "done"
    /\ DataStatusSeq(calls[c].log) = <<429, 429, 200>>

\* The scenario ends in success with the 200 response after 3 data requests
\* and 2 sleeps, each sleep right after a 429 response and before the next
\* data request.
C5_ScenarioOutcome ==
    \A c \in Callers :
        C5_Scenario(c) =>
            LET log == calls[c].log
            IN  /\ calls[c].resp = Resp(200, 2)
                /\ calls[c].err = NoErr
                /\ NumData(log) = 3
                /\ NumSleep(log) = 2
                /\ \A i \in 1..Len(log) :
                       /\ log[i] = DataResp(429) => i < Len(log) /\ IsSleep(log[i + 1])
                       /\ IsSleep(log[i]) => i > 1 /\ log[i - 1] = DataResp(429)

\* The sleep that follows a 429 lasts one second and, when the proxy is
\* anonymous or Token State is valid as the sleep ends, is followed by no
\* token request.
C5_SleepThenRetry ==
    \A c \in Callers :
        (calls[c].pc = "sleep" /\ calls'[c].pc # "sleep") =>
            /\ now' = now + 1
            /\ NumSleep(calls'[c].log) = NumSleep(calls[c].log) + 1
            /\ (~Authenticated \/ (authToken # "" /\ now' <= expiredTime)) =>
                   /\ calls'[c].pc \in {"dataWait", "done"}
                   /\ NumToken(calls'[c].log) = NumToken(calls[c].log)

\* C5: 429, 429, 200 gives success with the 200 response after exactly 3
\* data requests and two 1-second sleeps, each between a 429 and the next data
\* request, and a 429 causes no token request while the token is valid.
C5_RateLimitRetry == []C5_ScenarioOutcome /\ [][C5_SleepThenRetry]_vars

\* The scenario on an authenticated proxy, the only token request being the
\* lazy fetch of the first attempt.
C5_Witness ==
    \E c \in Callers :
        /\ C5_Scenario(c)
        /\ Authenticated
        /\ NumToken(calls[c].log) = 1
        /\ NumSleep(calls[c].log) = 2

(***************************************************************************)
(* The cached token.                                                       *)
(***************************************************************************)
AllData200(log) == \A i \in 1..Len(log) : IsData(log[i]) => log[i] = DataResp(200)

\* The first Get of an authenticated proxy, every data response being 200,
\* makes exactly one token request, and one data request if that succeeds.
C6_FirstGet ==
    \A c \in Callers :
        (Authenticated /\ nCalls = 1 /\ calls[c].pc = "done" /\ AllData200(calls[c].log)) =>
            LET log == calls[c].log
            IN  /\ NumToken(log) = 1
                /\ IsToken(log[1])
                /\ log[1].kind = "ok" =>
                       /\ log = << Ev("token", "lazy", "ok", 0), DataResp(200) >>
                       /\ calls[c].resp = Resp(200, 0)

\* A Get whose first event is a 200 data response made that data request and
\* nothing else.
C6_OneDataRequest ==
    \A c \in Callers :
        (calls[c].pc = "done" /\ Len(calls[c].log) > 0 /\ calls[c].log[1] = DataResp(200)) =>
            /\ calls[c].log = << DataResp(200) >>
            /\ calls[c].resp = Resp(200, 0)
            /\ calls[c].err = NoErr

\* A Get called on an authenticated proxy while Token State is valid (token
\* non-empty, now <= expiredTime) sends its data request at once, with no
\* token request.
C6_GetUsesValidToken ==
    (nCalls' = nCalls + 1 /\ Authenticated /\ authToken # "" /\ now <= expiredTime) =>
        \A c \in Callers :
            calls'[c] # calls[c] =>
                /\ calls'[c].pc = "dataWait"
                /\ calls'[c].log = << >>
                /\ authToken' = authToken
                /\ expiredTime' = expiredTime

\* C6: with a data endpoint that answers 200, the first Get of an
\* authenticated proxy makes one token request and one data request, and a
\* later Get called while the cached token is valid makes one data request and
\* no token request.
C6_TokenIsCached == [](C6_FirstGet /\ C6_OneDataRequest) /\ [][C6_GetUsesValidToken]_vars

\* A second Get that made one data request and no token request.
C6_Witness ==
    \E c \in Callers :
        /\ Authenticated
        /\ nCalls = 2
        /\ calls[c].pc = "done"
        /\ calls[c].log = << DataResp(200) >>

(***************************************************************************)
(* Failures that end the call.                                             *)
(***************************************************************************)
\* C7: a failed token refresh (the token request made for a 401 response) is
\* the last thing its Get does: the call has returned a nil response and the
\* refresh error, with no data request, token request or sleep after it.
C7_RefreshFailureAborts ==
    \A c \in Callers :
        LET cr == calls[c]
        IN  \A i \in 1..Len(cr.log) :
                (IsToken(cr.log[i]) /\ cr.log[i].why = "refresh" /\ cr.log[i].kind # "ok") =>
                    /\ i = Len(cr.log)
                    /\ i > 1
                    /\ cr.log[i - 1] = DataResp(401)
                    /\ cr.pc = "done"
                    /\ cr.resp = NilResp
                    /\ cr.err = Err("refresh_auth_token", cr.log[i].kind, 0)

\* A refresh that failed on a malformed body after the 401 of the third attempt.
C7_Witness ==
    \E c \in Callers :
        /\ calls[c].pc = "done"
        /\ calls[c].retryCount = 2
        /\ calls[c].err = Err("refresh_auth_token", "json", 0)
        /\ DataStatusSeq(calls[c].log) = <<429, 401, 401>>

\* C8: a failed lazy token fetch (the token request made because Token State
\* was invalid as an attempt started) is the last thing its Get does: the call
\* has returned a nil response and that error, and the attempt sent no data
\* request.
C8_LazyFetchFailureAborts ==
    \A c \in Callers :
        LET cr == calls[c]
        IN  \A i \in 1..Len(cr.log) :
                (IsToken(cr.log[i]) /\ cr.log[i].why = "lazy" /\ cr.log[i].kind # "ok") =>
                    /\ i = Len(cr.log)
                    /\ cr.pc = "done"
                    /\ cr.resp = NilResp
                    /\ cr.err = Err("build_auth_headers", cr.log[i].kind, 0)
                    /\ NumData(cr.log) = cr.retryCount

\* A lazy fetch that failed as the second attempt started.
C8_Witness ==
    \E c \in Callers :
        /\ calls[c].pc = "done"
        /\ calls[c].retryCount = 1
        /\ calls[c].err = Err("build_auth_headers", "status", 0)
        /\ DataStatusSeq(calls[c].log) = <<429>>

\* C9: a data response with a status outside {200, 304, 401, 429} is the last
\* thing its Get does, at any attempt: the call has returned a nil response and
\* the unexpected-status error carrying that status.
C9_UnexpectedStatusFails ==
    \A c \in Callers :
        LET cr == calls[c]
        IN  \A i \in 1..Len(cr.log) :
                ( /\ IsData(cr.log[i])
                  /\ cr.log[i].kind = "response"
                  /\ cr.log[i].status \notin {200, 304, 401, 429} ) =>
                    /\ i = Len(cr.log)
                    /\ cr.pc = "done"
                    /\ cr.resp = NilResp
                    /\ cr.err = Err("unexpected_status", "none", cr.log[i].status)

\* A 500 received by the third attempt.
C9_Witness ==
    \E c \in Callers :
        /\ calls[c].pc = "done"
        /\ calls[c].retryCount = 2
        /\ DataStatusSeq(calls[c].log) = <<401, 429, 500>>
        /\ calls[c].err.status = 500

\* C10: a transport failure of a token request or of a data request is the
\* last thing its Get does: the call has returned a nil response and an error
\* caused by that failure, and no network call follows it.
C10_TransportFailureFails ==
    \A c \in Callers :
        LET cr == calls[c]
        IN  \A i \in 1..Len(cr.log) :
                cr.log[i].kind = "transport" =>
                    /\ i = Len(cr.log)
                    /\ cr.pc = "done"
                    /\ cr.resp = NilResp
                    /\ cr.err # NoErr
                    /\ cr.err.cause = "transport"

\* A data request that failed in transport, made by the retry after a refresh.
C10_Witness ==
    \E c \in Callers :
        /\ calls[c].pc = "done"
        /\ calls[c].err = Err("request_failed", "transport", 0)
        /\ DataStatusSeq(calls[c].log) = <<401, 0>>

(***************************************************************************)
(* The headers and the query of the data request.                          *)
(***************************************************************************)
\* C11: every data request of a proxy whose appID or appKey is empty carries
\* the fixed User-Agent and the caller's headers over it, and so no
\* Authorization entry unless the caller supplied one; this at every attempt
\* and whatever Token State holds.
C11_AnonymousHasNoAuthorization ==
    \A c \in Callers :
        (~Authenticated /\ calls[c].req # NoReq) =>
            LET sent == calls[c].req.headers
            IN  /\ "User-Agent" \in DOMAIN sent
                /\ "Authorization" \in DOMAIN sent =>
                       /\ "Authorization" \in DOMAIN calls[c].headers
                       /\ sent["Authorization"] = calls[c].headers["Authorization"]
                /\ DOMAIN sent = {"User-Agent"} \cup DOMAIN calls[c].headers
                /\ "User-Agent" \notin DOMAIN calls[c].headers =>
                       sent["User-Agent"] = Lit(UserAgent)

\* The third data request of a proxy with an appID and no appKey, in flight
\* after a 401 whose refresh stored a token.
C11_Witness ==
    \E c \in Callers :
        /\ appID # ""
        /\ appKey = ""
        /\ authToken # ""
        /\ calls[c].pc = "dataWait"
        /\ calls[c].retryCount = 2
        /\ calls[c].headers = EmptyMap
        /\ DOMAIN calls[c].req.headers = {"User-Agent"}

C13_FormatDefaulted ==
    \A c \in Callers :
        calls[c].req # NoReq =>
            LET a == calls[c].argParams
                q == calls[c].req.query
                own == IF a.nil THEN {} ELSE DOMAIN a.m
            IN  /\ DOMAIN q = own \cup {"$format"}
                /\ "$format" \notin own => q["$format"] = Lit("JSON")
                /\ \A k \in own : q[k] = a.m[k]

\* The second retry of a call that passed params without $format.
C13_Witness ==
    \E c \in Callers :
        /\ nCalls = 2
        /\ calls[c].pc = "dataWait"
        /\ calls[c].retryCount = 2
        /\ calls[c].argParams = SomeMap(EmptyMap)
        /\ calls[c].req.query = MapSet(EmptyMap, "$format", Lit("JSON"))

(***************************************************************************)
(* Sequential use with the setters: one caller calls Get, SetHost and      *)
(* SetBaseURL one after the other; the endpoints answer with a few of      *)
(* their outcomes.                                                         *)
(***************************************************************************)
FewTokenOutcomes ==
    { o \in TokenOutcomes :
          \/ o.kind = "ok" /\ o.token # "" /\ o.expiresIn = LongestExpiresIn
          \/ o.kind = "status" }

FewDataOutcomes == { StatusOK, StatusUnauthorized, StatusTooManyRequests }

NextConfigured ==
    \/ \E c \in SeqCallers, url \in HostChoices : SetHost(c, url)
    \/ \E c \in SeqCallers, url \in BaseUrlChoices : SetBaseURL(c, url)
    \/ \E c \in SeqCallers, url \in Endpoints : Get(c, url, NilMap, NilMap)
    \/ \E c \in SeqCallers, o \in FewTokenOutcomes : TokenResponse(c, o)
    \/ \E c \in SeqCallers : RetryAfterRefresh(c)
    \/ \E c \in SeqCallers, s \in FewDataOutcomes : DataResponse(c, s)
    \/ \E c \in SeqCallers : Wake(c)
    \/ Tick

SpecConfigured == Init /\ [][NextConfigured]_vars

\* The step is a call of a setter by caller c.
IsSetterCall(c) ==
    /\ calls'[c].op[1] \in {"SetHost", "SetBaseURL"}
    /\ calls'[c] # calls[c] \/ host' # host \/ baseUrl' # baseUrl

\* What a setter call of caller c may change besides the field it names.
SetterFrame(c) ==
    /\ UNCHANGED <<appID, appKey, authToken, expiredTime, now, nCalls>>
    /\ calls' = [calls EXCEPT ![c].op = calls'[c].op]

\* C15: SetHost("") and SetBaseURL("") change no field of the proxy;
\* SetHost(u) with u non-empty sets host to u and changes nothing else, and
\* SetBaseURL(u) with u non-empty sets baseUrl to u and changes nothing else.
C15_SettersFrame ==
    [][\A c \in Callers :
           IsSetterCall(c) =>
               LET name == calls'[c].op[1]
                   url == calls'[c].op[2]
               IN  /\ SetterFrame(c)
                   /\ url = "" => host' = host /\ baseUrl' = baseUrl
                   /\ (url # "" /\ name = "SetHost") => host' = url /\ baseUrl' = baseUrl
                   /\ (url # "" /\ name = "SetBaseURL") => baseUrl' = url /\ host' = host]_vars

\* SetBaseURL("") was called after SetHost had replaced the host and a Get
\* had stored a token.
C15_Witness ==
    \E c \in Callers :
        /\ calls[c].op = <<"SetBaseURL", "">>
        /\ host # TDX_HOST
        /\ baseUrl = URL_BASIC
        /\ authToken # ""

(***************************************************************************)
(* Concurrent use: the goroutines of Callers call Get on the same proxy.   *)
(* The code holds no lock, so their steps interleave freely.  The token    *)
(* and data endpoints answer with a few of their outcomes.                 *)
(***************************************************************************)
NextConcurrent ==
    \/ \E c \in Callers, url \in Endpoints : Get(c, url, NilMap, NilMap)
    \/ \E c \in Callers, o \in FewTokenOutcomes : TokenResponse(c, o)
    \/ \E c \in Callers : RetryAfterRefresh(c)
    \/ \E c \in Callers, s \in FewDataOutcomes : DataResponse(c, s)
    \/ \E c \in Callers : Wake(c)
    \/ Tick

SpecConcurrent == Init /\ [][NextConcurrent]_vars

\* The callers whose token request is in flight.
TokenRequestsInFlight == { c \in Callers : calls[c].pc = "tokenWait" }

\* C14: concurrent Get calls on one proxy have at most one token request in
\* flight at any time.
C14_OneTokenRequestInFlight == Cardinality(TokenRequestsInFlight) <= 1

(***************************************************************************)
(* Token State: when it is taken as valid, and how it is written.          *)
(***************************************************************************)
\* The step is the start of an attempt of caller c: requestWithRetry is
\* entered from Get, after a refresh or after the sleep, below the retry
\* bound.  buildAuthHeaders then reads the clock, which is now' in each case.
AttemptStarts(c) ==
    /\ \/ nCalls' = nCalls + 1 /\ calls'[c] # calls[c]
       \/ calls[c].pc = "retry" /\ calls'[c].pc # "retry"
       \/ calls[c].pc = "sleep" /\ calls'[c].pc # "sleep"
    /\ ~MaxRetryReached(calls'[c].retryCount)

\* The attempt of caller c that starts in this step sends its data request
\* with the cached token, without a token request.
UsesCachedToken(c) ==
    /\ calls'[c].pc = "dataWait"
    /\ NumToken(calls'[c].log) = NumToken(IF calls[c].pc = "done" THEN << >> ELSE calls[c].log)
    /\ "Authorization" \notin DOMAIN calls'[c].headers =>
           calls'[c].req.headers["Authorization"] = Bearer(authToken)
    /\ authToken' = authToken

\* The attempt of caller c that starts in this step waits for a token first.
FetchesToken(c) == calls'[c].pc = "tokenWait" /\ calls'[c].why = "lazy"

TokenRequestEnds(c) ==
    /\ calls[c].pc = "tokenWait"
    /\ Len(calls'[c].log) = Len(calls[c].log) + 1

\* The step is a successful token response received by caller c.
TokenStored(c) == TokenRequestEnds(c) /\ calls'[c].tokenResp.kind = "ok"

\* C17 (as claimed): after a successful refresh expiredTime is the time at
\* which the token request was sent plus expires_in minus 60, exactly
\* (compared in tenths of a second).
C17_FromRequestTime ==
    [][\A c \in Callers :
           TokenStored(c) =>
               10 * expiredTime' =
                   10 * calls[c].tokenSentAt + ExpiresInTenths(calls'[c].tokenResp)
                       - 10 * SafetyMargin]_vars

\* C17 (amended): after a successful refresh expiredTime is the clock read
\* when the response has been received and parsed, plus the integer part of
\* expires_in, minus 60, for every expires_in and every delay of the response.
C17_FromResponseTime ==
    [][\A c \in Callers :
           TokenStored(c) =>
               LET x == ExpiresInTenths(calls'[c].tokenResp)
                   n == expiredTime' + SafetyMargin - now
               IN  10 * n <= x /\ x < 10 * (n + 1)]_vars

\* A refresh after a 401 stored a token whose expires_in is 59.5, some
\* seconds after construction: expiredTime is one second in the past.
C17_Witness ==
    \E c \in Callers :
        /\ calls[c].pc = "retry"
        /\ calls[c].tokenResp.kind = "ok"
        /\ calls[c].tokenResp.expiresIn < SafetyMargin
        /\ calls[c].tokenResp.tenths = HalfSecond
        /\ now > 0
        /\ expiredTime = now - 1

\* What one step may do to Token State.
C18_TokenStateStep ==
    /\ (authToken' # authToken \/ expiredTime' # expiredTime) =>
           \E c \in Callers : TokenStored(c)
    /\ \A c \in Callers :
           TokenStored(c) =>
               /\ authToken' = calls'[c].tokenResp.token
               /\ expiredTime' = NewExpiredTime(now, Int64(ExpiresInTenths(calls'[c].tokenResp)))
    /\ \A c \in Callers :
           (TokenRequestEnds(c) /\ ~TokenStored(c)) =>
               /\ calls'[c].tokenResp.kind \in TokenFailures
               /\ authToken' = authToken
               /\ expiredTime' = expiredTime
               /\ calls'[c].pc = "done"
               /\ calls'[c].resp = NilResp
               /\ calls'[c].err.kind \in {"build_auth_headers", "refresh_auth_token"}
               /\ calls'[c].err.cause = calls'[c].tokenResp.kind

\* C18: authToken and expiredTime change only in a step that receives a
\* successful token response, and then both are assigned from that response;
\* a token request that fails in any way (transport, status, body, JSON,
\* access_token, expires_in) leaves both as they were and ends Get with an
\* error naming the failure.
C18_OnlySuccessWritesTokenState == [][C18_TokenStateStep]_vars

\* A refresh whose response lacked expires_in ended the call with an error and
\* left the cached token in place.
C18_Witness ==
    \E c \in Callers :
        /\ calls[c].pc = "done"
        /\ calls[c].tokenResp.kind = "no_expires_in"
        /\ calls[c].err = Err("refresh_auth_token", "no_expires_in", 0)
        /\ authToken # ""

(***************************************************************************)
(* The retry after a 401.                                                  *)
(***************************************************************************)
\* The data request of caller c in flight follows a refresh that succeeded:
\* no data response came after that refresh.
FollowsRefresh(c) ==
    /\ calls[c].pc = "dataWait"
    /\ \E i \in 1..Len(calls[c].log) :
           /\ calls[c].log[i] = Ev("token", "refresh", "ok", 0)
           /\ \A j \in (i + 1)..Len(calls[c].log) : ~IsData(calls[c].log[j])

\* In the log of every call a 401 is followed by the refresh and by nothing
\* else, and a failed refresh is the last event.
RefreshBeforeRetry ==
    \A c \in Callers :
        \A i \in 1..Len(calls[c].log) :
            calls[c].log[i] = DataResp(401) =>
                /\ i = Len(calls[c].log) => calls[c].pc = "tokenWait"
                /\ i < Len(calls[c].log) =>
                       /\ IsToken(calls[c].log[i + 1])
                       /\ calls[c].log[i + 1].why = "refresh"
                       /\ i + 1 < Len(calls[c].log) => calls[c].log[i + 1].kind = "ok"

C20_BodiesClosed ==
    \A c \in Callers :
        IF calls[c].pc = "done" /\ calls[c].err = NoErr
        THEN /\ calls[c].open = {calls[c].resp.attempt}
             /\ calls[c].resp.attempt = calls[c].retryCount
             /\ StatusCase(calls[c].resp.status) = "success"
        ELSE calls[c].open = {}

\* Get returned an error after a 401, a 429 and an unexpected status, each
\* body closed.
C20_Witness ==
    \E c \in Callers :
        /\ calls[c].pc = "done"
        /\ calls[c].err = Err("unexpected_status", "none", 500)
        /\ DataStatusSeq(calls[c].log) = <<401, 429, 500>>
        /\ calls[c].open = {}

(***************************************************************************)
(* The anonymous proxy and the token endpoint.                             *)
(***************************************************************************)
\* C21: a proxy whose appID or appKey is empty never has a token request in
\* flight, none of its calls has received a token response, and its
\* authToken stays empty.
C21_AnonymousNeverRequestsToken ==
    ~Authenticated =>
        /\ authToken = ""
        /\ \A c \in Callers :
               /\ calls[c].pc # "tokenWait"
               /\ NumToken(calls[c].log) = 0

(***************************************************************************)
(* What follows each 401 and each 429.                                     *)
(***************************************************************************)
IsRefresh(e) == IsToken(e) /\ e.why = "refresh"

Is401(e) == e = DataResp(401)

Is429(e) == e = DataResp(429)

NumRefresh(log) == Len(SelectSeq(log, IsRefresh))

\* 1 if the condition holds, 0 otherwise.
Pending(cond) == IF cond THEN 1 ELSE 0

\* C22: in every call each 401 data response is followed at once by one token
\* refresh (ended, or in flight) and each 429 by one sleep (ended, or going
\* on), whichever attempt received it; the refreshes of a call are as many as
\* its 401s and its sleeps as many as its 429s, so a call that gives up on the
\* retry bound has made 3 data requests and 3 refreshes or sleeps in all.
C22_RefreshOrSleepAfterEach ==
    \A c \in Callers :
        LET log == calls[c].log
            refreshing == calls[c].pc = "tokenWait" /\ calls[c].why = "refresh"
            sleeping == calls[c].pc = "sleep"
        IN  /\ \A i \in 1..Len(log) :
                   /\ Is401(log[i]) => IF i = Len(log) THEN refreshing ELSE IsRefresh(log[i + 1])
                   /\ Is429(log[i]) => IF i = Len(log) THEN sleeping ELSE IsSleep(log[i + 1])
            /\ NumRefresh(log) + Pending(refreshing) = Len(SelectSeq(log, Is401))
            /\ NumSleep(log) + Pending(sleeping) = Len(SelectSeq(log, Is429))
            /\ calls[c].err.kind = "max_retry" =>
                   /\ NumData(log) = 3
                   /\ NumRefresh(log) + NumSleep(log) = 3
                   /\ IsRefresh(log[Len(log)]) \/ IsSleep(log[Len(log)])

\* Get gave up on the retry bound after three 401 responses and three
\* refreshes.
C22_Witness ==
    \E c \in Callers :
        /\ calls[c].pc = "done"
        /\ calls[c].err.kind = "max_retry"
        /\ DataStatusSeq(calls[c].log) = <<401, 401, 401>>
        /\ NumRefresh(calls[c].log) = 3

(***************************************************************************)
(* The setters and the cached token.                                       *)
(***************************************************************************)
\* A call of SetHost or SetBaseURL leaves Token State and the credentials.
C23_SetterKeepsToken ==
    \A c \in Callers :
        IsSetterCall(c) =>
            /\ authToken' = authToken
            /\ expiredTime' = expiredTime
            /\ appID' = appID
            /\ appKey' = appKey

\* An attempt is addressed to the host and base path the proxy holds as it
\* starts, and carries the cached token while that token is valid, whichever
\* host it was fetched from.
C23_CachedTokenSentToHost ==
    \A c \in Callers :
        AttemptStarts(c) =>
            /\ calls'[c].fullURL.host = host
            /\ calls'[c].fullURL.base = baseUrl
            /\ (Authenticated /\ authToken # "" /\ now' <= expiredTime) =>
                   /\ UsesCachedToken(c)
                   /\ calls'[c].req.host = host

\* A token request in flight was sent to the token path of the current host.
C23_TokenRequestToHost ==
    \A c \in Callers :
        calls[c].pc = "tokenWait" =>
            calls[c].tokenURL = [host |-> host, path |-> URL_AUTH]

\* C23: SetHost and SetBaseURL leave authToken, expiredTime, appID and appKey
\* as they are; a Get after them sends the cached token, while it is valid, to
\* the host now set; and every token request goes to the token endpoint of
\* the host now set.
C23_TokenSurvivesSetters ==
    /\ []C23_TokenRequestToHost
    /\ [][C23_SetterKeepsToken /\ C23_CachedTokenSentToHost]_vars

\* The second Get, after SetHost, sends to the new host the token that the
\* first Get fetched from the first host.
C23_Witness ==
    \E c \in Callers :
        /\ Authenticated
        /\ nCalls = 2
        /\ calls[c].pc = "dataWait"
        /\ calls[c].log = << >>
        /\ calls[c].tokenURL = [host |-> TDX_HOST, path |-> URL_AUTH]
        /\ calls[c].req.host # TDX_HOST
        /\ calls[c].req.host = host
        /\ authToken # ""
        /\ calls[c].req.headers["Authorization"] = Bearer(authToken)

(***************************************************************************)
(* Termination.  Every network call returns, the sleep ends and the code   *)
(* between two blocking points runs: each step of a call that is enabled   *)
(* is eventually taken.                                                    *)
(***************************************************************************)
\* The outcomes of a token request by what they make the call do: fail,
\* store a token that is valid at the next attempt, store one that is not.
FairTokenOutcomes ==
    FewTokenOutcomes \cup
        { o \in TokenOutcomes : o.kind = "ok" /\ o.token = "tokA"
                                    /\ o.expiresIn < SafetyMargin /\ o.tenths = 0 }

NextFair ==
    \/ \E c \in SeqCallers, url \in Endpoints, a \in ArgChoices : Get(c, url, a[1], a[2])
    \/ \E c \in SeqCallers, o \in FairTokenOutcomes : TokenResponse(c, o)
    \/ \E c \in SeqCallers : RetryAfterRefresh(c)
    \/ \E c \in SeqCallers, s \in DataOutcomes : DataResponse(c, s)
    \/ \E c \in SeqCallers : Wake(c)
    \/ Tick

Fairness ==
    \A c \in SeqCallers :
        /\ WF_vars(\E o \in FairTokenOutcomes : TokenResponse(c, o))
        /\ WF_vars(RetryAfterRefresh(c))
        /\ WF_vars(\E s \in DataOutcomes : DataResponse(c, s))
        /\ WF_vars(Wake(c))

SpecFair == Init /\ [][NextFair]_vars /\ Fairness

\* The data requests a call has sent: those that ended and the one in flight.
DataRequestsSent(cr) == NumData(cr.log) + Pending(cr.pc = "dataWait")

\* A call has sent at most 3 data requests, one per value of the retry
\* counter up to the current one.
C24_AtMostThreeDataRequests ==
    \A c \in Callers :
        /\ DataRequestsSent(calls[c]) <= 3
        /\ calls[c].pc \in {"dataWait", "tokenWait", "sleep", "retry"} =>
               /\ calls[c].retryCount \in 0..2
               /\ DataRequestsSent(calls[c]) \in {calls[c].retryCount, calls[c].retryCount + 1}
               /\ calls[c].pc # "tokenWait" \/ calls[c].why # "lazy" =>
                      DataRequestsSent(calls[c]) = calls[c].retryCount + 1

\* Within a call the retry counter changes only by 1 upwards, and only after
\* a 401 or a 429 response to the data request before.
C24_RetryCounterStep ==
    \A c \in Callers :
        (calls[c].pc \notin {"idle", "done"} /\ calls'[c].retryCount # calls[c].retryCount) =>
            /\ calls'[c].retryCount = calls[c].retryCount + 1
            /\ calls[c].pc \in {"retry", "sleep"}
            /\ \E i \in 1..Len(calls[c].log) :
                   /\ Is401(calls[c].log[i]) \/ Is429(calls[c].log[i])
                   /\ \A j \in (i + 1)..Len(calls[c].log) : ~IsData(calls[c].log[j])

\* C24: every Get call returns, having sent at most 3 data requests one after
\* the other; its retry counter goes up by 1 at each retry, and a retry
\* follows only a 401 or a 429 response.
C24_GetTerminates ==
    /\ \A c \in SeqCallers : (calls[c].pc \notin {"idle", "done"}) ~> (calls[c].pc = "done")
    /\ []C24_AtMostThreeDataRequests
    /\ [][C24_RetryCounterStep]_vars

\* Get returned after three data requests, the last one answered 200.
C24_Witness ==
    \E c \in Callers :
        /\ calls[c].pc = "done"
        /\ calls[c].retryCount = 2
        /\ DataStatusSeq(calls[c].log) = <<429, 401, 200>>
        /\ calls[c].resp = Resp(200, 2)

====
